---- MODULE Spec2Model ----
(***************************************************************************)
(* Betting-state machine and terminal valuation of acpc_server.            *)
(*                                                                         *)
(* The Rust type State (src/src/lib.rs) owns a Game and a native           *)
(* acpc::State and forwards every operation to the native ACPC routines    *)
(* (initState, currentPlayer, isValidAction, raiseIsValid, doAction,       *)
(* numCalled, numActingPlayers, valueOfState, ...).  The Rust methods are  *)
(* modelled from lib.rs; the native routines they call are compiled from   *)
(* acpc-server-sys/src/c/game.c and are modelled here as operators on a    *)
(* game record g and a state record s with the native field names.         *)
(*                                                                         *)
(* Payoffs are f64 in the program.  The model computes them as doubles:    *)
(* the division of the pot by the number of winners is rounded to 53 bits. *)
(***************************************************************************)
EXTENDS Integers, Sequences, FiniteSets, TLC

\* ---------------------------------------------------------- program constants
MAX_NUM_ACTIONS == 64
UINT8_MAX == 255
INT32_MAX == 2147483647

\* acpc::ActionType
a_fold == "a_fold"
a_call == "a_call"
a_raise == "a_raise"
a_invalid == "a_invalid"

\* Action (lib.rs): Fold | Call | Raise(i32) | Invalid
Fold == [kind |-> "Fold", amount |-> 0]
Call == [kind |-> "Call", amount |-> 0]
Raise(t) == [kind |-> "Raise", amount |-> t]
Invalid == [kind |-> "Invalid", amount |-> 0]

\* to_acpc_action that passes Invalid on as a call (mutant)
to_acpc_action_invalid_as_call(action) ==
    CASE action.kind = "Fold" -> [type |-> a_fold, size |-> 0]
      [] action.kind = "Raise" -> [type |-> a_raise, size |-> action.amount]
      [] OTHER -> [type |-> a_call, size |-> 0]

\* to_acpc_action
to_acpc_action(action) ==
    CASE action.kind = "Fold" -> [type |-> a_fold, size |-> 0]
      [] action.kind = "Call" -> [type |-> a_call, size |-> 0]
      [] action.kind = "Raise" -> [type |-> a_raise, size |-> action.amount]
      [] OTHER -> [type |-> a_invalid, size |-> 0]

\* A zero-based array from a sequence literal.
Arr(seq) == [i \in 0..(Len(seq) - 1) |-> seq[i + 1]]

\* ------------------------------------------------------------------- games
\* resources/holdem.nolimit.3p.game
HoldemNolimit3p ==
    [ name |-> "holdem.nolimit.3p",
      bettingType |-> "noLimitBetting",
      numPlayers |-> 3,
      numRounds |-> 4,
      stack |-> Arr(<<20000, 20000, 20000>>),
      blind |-> Arr(<<50, 100, 0>>),
      firstPlayer |-> Arr(<<2, 0, 0, 0>>),
      raiseSize |-> Arr(<<0, 0, 0, 0>>),
      maxRaises |-> Arr(<<UINT8_MAX, UINT8_MAX, UINT8_MAX, UINT8_MAX>>) ]

\* resources/holdem.nolimit.2p.reverse_blinds.game
HoldemNolimit2pReverseBlinds ==
    [ name |-> "holdem.nolimit.2p.reverse_blinds",
      bettingType |-> "noLimitBetting",
      numPlayers |-> 2,
      numRounds |-> 4,
      stack |-> Arr(<<20000, 20000>>),
      blind |-> Arr(<<100, 50>>),
      firstPlayer |-> Arr(<<1, 0, 0, 0>>),
      raiseSize |-> Arr(<<0, 0, 0, 0>>),
      maxRaises |-> Arr(<<UINT8_MAX, UINT8_MAX, UINT8_MAX, UINT8_MAX>>) ]

\* resources/leduc.limit.2p.game
LeducLimit2p ==
    [ name |-> "leduc.limit.2p",
      bettingType |-> "limitBetting",
      numPlayers |-> 2,
      numRounds |-> 2,
      stack |-> Arr(<<INT32_MAX, INT32_MAX>>),
      blind |-> Arr(<<1, 1>>),
      firstPlayer |-> Arr(<<0, 0>>),
      raiseSize |-> Arr(<<2, 4>>),
      maxRaises |-> Arr(<<2, 2>>) ]

\* A two-player no-limit game with unequal stacks: player 1 is all-in at 120,
\* so that it can call a bet for less than the bet.
ShortStackNolimit2p ==
    [ name |-> "short.nolimit.2p",
      bettingType |-> "noLimitBetting",
      numPlayers |-> 2,
      numRounds |-> 2,
      stack |-> Arr(<<1000, 120>>),
      blind |-> Arr(<<100, 50>>),
      firstPlayer |-> Arr(<<1, 0>>),
      raiseSize |-> Arr(<<0, 0>>),
      maxRaises |-> Arr(<<UINT8_MAX, UINT8_MAX>>) ]

\* A four-player no-limit game: three players can share a pot that a fourth
\* player has paid into before folding.
Nolimit4p ==
    [ name |-> "nolimit.4p",
      bettingType |-> "noLimitBetting",
      numPlayers |-> 4,
      numRounds |-> 2,
      stack |-> Arr(<<1000, 1000, 1000, 1000>>),
      blind |-> Arr(<<50, 100, 0, 0>>),
      firstPlayer |-> Arr(<<2, 0>>),
      raiseSize |-> Arr(<<0, 0>>),
      maxRaises |-> Arr(<<UINT8_MAX, UINT8_MAX>>) ]

Games == {HoldemNolimit3p, HoldemNolimit2pReverseBlinds, LeducLimit2p,
          ShortStackNolimit2p, Nolimit4p}

\* legal_actions (build_tree.rs): the candidates the tree builder offers in a
\* round, before it filters them with is_valid_action; it panics in a round
\* other than 0 and 1, where the model offers nothing.
legal_candidates(round) ==
    CASE round = 0 -> {Fold, Call, Raise(2)}
      [] round = 1 -> {Fold, Call, Raise(4)}
      [] OTHER -> {}

\* The raise targets the tests pass to do_action in a game: state_tests for
\* the three-player game, state_tests_2p for the two-player game.  No test
\* raises in another game.
TestRaiseTargets(g) ==
    CASE g.name = "holdem.nolimit.3p" -> {200, 500, 1000, 2000, 20000}
      [] g.name = "holdem.nolimit.2p.reverse_blinds" ->
             {200, 1000, 2000, 6000, 12000, 20000}
      [] OTHER -> {}

\* Action::Raise carries any i32 and do_action is public: values of that
\* argument for the games in which no test raises.  In the limit game these
\* are the commitments its raises of 2 and of 4 chips lead to, in the two
\* further games a raise below the minimum, a raise and a raise all-in.
ApiRaiseTargets(g) ==
    CASE g.name = "holdem.nolimit.3p" -> {}
      [] g.name = "holdem.nolimit.2p.reverse_blinds" -> {}
      [] g.name = "leduc.limit.2p" -> {3, 5, 7, 9, 11, 13}
      [] OTHER -> {120, 200, 1000}

\* The raise targets state_tests::is_valid_action asks is_valid_action about.
TestValidityTargets(g) ==
    IF g.name = "holdem.nolimit.3p" THEN {100, 1000, 10000, 20001} ELSE {}

\* Raise targets do_action is called with in a round of a game (valid and
\* invalid ones): those of the tests, the one legal_actions offers in the
\* round, and the further values of the argument.
RaiseInputs(g, round) ==
    TestRaiseTargets(g)
    \cup {a.amount : a \in {c \in legal_candidates(round) : c.kind = "Raise"}}
    \cup ApiRaiseTargets(g)

Players(g) == 0..(g.numPlayers - 1)
Rounds(g) == 0..(g.numRounds - 1)

\* Player arguments the callers pass, in range and out of range.
PlayerArgs(g) == 0..(g.numPlayers + 1) \cup {UINT8_MAX}

\* ------------------------------------------------------------------- state
VARIABLES
    game,        \* State.game: the immutable game definition
    state_,      \* State.state_: the native betting state
    handRank     \* the order rankHand puts the players' hands in, given
                 \* state_.holeCards and state_.boardCards: handRank[p] is the
                 \* number of distinct hand strengths up to player p's

vars == <<game, state_, handRank>>

\* Game::player_idx
player_idx(g, player) ==
    IF g.numPlayers <= player
    THEN [ok |-> FALSE, val |-> 0]
    ELSE [ok |-> TRUE, val |-> player]

\* Game::stack_size
stack_size(g, player) ==
    LET idx == player_idx(g, player)
    IN IF idx.ok THEN [ok |-> TRUE, val |-> g.stack[idx.val]] ELSE idx

\* initState (game.c)
initState(g) ==
    LET maxb == CHOOSE m \in {0} \cup {g.blind[p] : p \in Players(g)} :
                    /\ m >= 0
                    /\ \A p \in Players(g) : g.blind[p] <= m
    IN [ maxSpent |-> maxb,
         minNoLimitRaiseTo |->
             IF g.bettingType = "noLimitBetting"
             THEN (IF maxb # 0 THEN maxb * 2 ELSE 1)
             ELSE 0,
         spent |-> [p \in Players(g) |-> g.blind[p]],
         action |-> [r \in Rounds(g) |-> <<>>],
         actingPlayer |-> [r \in Rounds(g) |-> <<>>],
         numActions |-> [r \in Rounds(g) |-> 0],
         round |-> 0,
         finished |-> 0,
         playerFolded |-> [p \in Players(g) |-> 0] ]

\* numFolded (game.c)
numFolded(g, s) == Cardinality({p \in Players(g) : s.playerFolded[p] # 0})

\* numAllIn (game.c)
numAllIn(g, s) == Cardinality({p \in Players(g) : s.spent[p] >= g.stack[p]})

\* numActingPlayers (game.c)
numActingPlayers(g, s) ==
    Cardinality({p \in Players(g) :
                    s.playerFolded[p] = 0 /\ s.spent[p] < g.stack[p]})

\* numRaises (game.c)
numRaises(s) ==
    Cardinality({i \in 1..s.numActions[s.round] :
                    s.action[s.round][i].type = a_raise})

\* nextPlayer (game.c): the first player after curPlayer, in seat order, that
\* has neither folded nor is all-in.  The native loop does not terminate when
\* there is no such player; the model returns numPlayers in that case.
nextPlayer(g, s, curPlayer) ==
    LET n == g.numPlayers
        able(q) == s.playerFolded[q] = 0 /\ s.spent[q] < g.stack[q]
        Steps == {k \in 1..n : able((curPlayer + k) % n)}
    IN IF Steps = {}
       THEN n
       ELSE (curPlayer + (CHOOSE k \in Steps : \A j \in Steps : k <= j)) % n

\* currentPlayer (game.c)
currentPlayer(g, s) ==
    IF s.numActions[s.round] # 0
    THEN nextPlayer(g, s, s.actingPlayer[s.round][s.numActions[s.round]])
    ELSE nextPlayer(g, s, g.firstPlayer[s.round] + g.numPlayers - 1)

\* numCalled (game.c): scans the round's log backwards up to and including the
\* last raise, counting callers (and the raiser) that are not all-in.
RECURSIVE numCalledFrom(_, _, _)
numCalledFrom(g, s, i) ==
    IF i = 0
    THEN 0
    ELSE LET p == s.actingPlayer[s.round][i]
             t == s.action[s.round][i].type
             live == IF s.spent[p] < g.stack[p] THEN 1 ELSE 0
         IN IF t = a_raise
            THEN live
            ELSE IF t = a_call
                 THEN live + numCalledFrom(g, s, i - 1)
                 ELSE numCalledFrom(g, s, i - 1)

numCalled(g, s) == numCalledFrom(g, s, s.numActions[s.round])

Min(a, b) == IF a <= b THEN a ELSE b

\* raiseIsValid (game.c): [ok, min, max].  A raise is impossible when a limit
\* game's raise cap of the round is reached or the actor has no chips beyond
\* maxSpent (nextPlayer finds no actor when nobody can act).  In a limit game
\* the only target is maxSpent plus the round's raise size, in a no-limit game
\* the targets go from the minimum raise to the actor's stack; both are capped
\* at the actor's stack.
raiseIsValid(g, s) ==
    LET no == [ok |-> FALSE, min |-> 0, max |-> 0]
        p == currentPlayer(g, s)
    IN IF p \notin Players(g)
       THEN no
       ELSE IF g.bettingType = "limitBetting"
               /\ numRaises(s) >= g.maxRaises[s.round]
       THEN no
       ELSE IF g.stack[p] <= s.maxSpent
       THEN no
       ELSE IF g.bettingType = "limitBetting"
       THEN [ok |-> TRUE,
             min |-> Min(s.maxSpent + g.raiseSize[s.round], g.stack[p]),
             max |-> Min(s.maxSpent + g.raiseSize[s.round], g.stack[p])]
       ELSE [ok |-> TRUE,
             min |-> Min(s.minNoLimitRaiseTo, g.stack[p]),
             max |-> g.stack[p]]

\* isValidAction (game.c) with tryFixing = 0: a fold and a call are valid for
\* an actor that has neither folded nor is all-in, a raise when its target is
\* within the bounds of raiseIsValid, the bounds included.
isValidAction(g, s, a) ==
    IF s.finished # 0 \/ a.type = a_invalid
    THEN FALSE
    ELSE IF a.type = a_raise
    THEN LET rv == raiseIsValid(g, s)
         IN rv.ok /\ ~(a.size < rv.min) /\ ~(a.size > rv.max)
    ELSE LET p == currentPlayer(g, s)
         IN /\ p \in Players(g)
            /\ s.playerFolded[p] = 0
            /\ s.spent[p] < g.stack[p]

\* doAction's round-advance check: every player that has neither folded nor
\* is all-in has acted in round r, and every non-folded player has committed
\* maxSpent.
roundComplete(g, s, r) ==
    /\ \A p \in Players(g) :
           (s.playerFolded[p] = 0 /\ s.spent[p] < g.stack[p])
               => \E i \in 1..s.numActions[r] : s.actingPlayer[r][i] = p
    /\ \A p \in Players(g) :
           s.playerFolded[p] = 0 => s.spent[p] = s.maxSpent

\* doAction's all-in short-circuit: every non-folded player is all-in or
\* unable to act further, having committed maxSpent with no opponent left
\* that could answer a bet.
noFurtherAction(g, s) ==
    \A p \in Players(g) :
        s.playerFolded[p] = 0 =>
            \/ s.spent[p] >= g.stack[p]
            \/ /\ s.spent[p] = s.maxSpent
               /\ \A q \in Players(g) \ {p} :
                      s.playerFolded[q] # 0 \/ s.spent[q] >= g.stack[q]

\* doAction (game.c), the part that ends the round or the hand: a complete
\* round that is not the last one moves to the next round; the hand is
\* finished when one non-folded player remains, when the last round is
\* complete and when no further action is possible.
endOfAction(g, s) ==
    LET r == s.round
        complete == roundComplete(g, s, r)
        s1 == IF complete /\ r + 1 < g.numRounds
              THEN [s EXCEPT !.round = r + 1]
              ELSE s
    IN IF \/ numFolded(g, s) + 1 >= g.numPlayers
          \/ complete /\ r + 1 >= g.numRounds
          \/ noFurtherAction(g, s)
       THEN [s1 EXCEPT !.finished = 1]
       ELSE s1

\* doAction (game.c).  An action of type a_invalid is only logged: do_action
\* never passes one.
doAction(g, a, s) ==
    LET p == currentPlayer(g, s)
        r == s.round
        s1 == [s EXCEPT !.action[r] = Append(@, a),
                        !.actingPlayer[r] = Append(@, p),
                        !.numActions[r] = @ + 1]
        raised ==
            IF g.bettingType = "noLimitBetting"
            THEN [s1 EXCEPT
                    !.minNoLimitRaiseTo = a.size + (a.size - s1.maxSpent),
                    !.maxSpent = a.size,
                    !.spent[p] = a.size]
            ELSE [s1 EXCEPT !.maxSpent = a.size, !.spent[p] = a.size]
        s2 == CASE a.type = a_fold -> [s1 EXCEPT !.playerFolded[p] = 1]
                [] a.type = a_call ->
                     [s1 EXCEPT !.spent[p] = IF s1.maxSpent > g.stack[p]
                                             THEN g.stack[p]
                                             ELSE s1.maxSpent]
                [] a.type = a_raise -> raised
                [] OTHER -> s1
    IN IF a.type = a_invalid THEN s1 ELSE endOfAction(g, s2)

\* -------------------------------------------------------------- valuation
\* valueOfState returns a double.  The model writes a double as
\* num/den + (err/d) * 2^(exp - 52): num/den is the quotient or difference
\* computed without rounding, in lowest terms; d is the odd part of den; exp
\* is the binary exponent of the rounded quotient; err/d is the rounding error
\* in units of the last place of the quotient, 0 when nothing was rounded.
RECURSIVE Gcd(_, _)
Gcd(a, b) == IF b = 0 THEN a ELSE Gcd(b, a % b)

Abs(a) == IF a < 0 THEN 0 - a ELSE a

RECURSIVE OddPart(_)
OddPart(n) == IF n % 2 = 0 THEN OddPart(n \div 2) ELSE n

RECURSIVE Pow2(_)
Pow2(k) == IF k <= 0 THEN 1 ELSE 2 * Pow2(k - 1)

\* 2^k modulo d
RECURSIVE Pow2Mod(_, _)
Pow2Mod(k, d) == IF k <= 0 THEN 1 % d ELSE (2 * Pow2Mod(k - 1, d)) % d

\* The binary exponent of num/den: the largest e with 2^e <= num/den.
RECURSIVE Log2Floor(_, _)
Log2Floor(num, den) ==
    IF num < den THEN Log2Floor(2 * num, den) - 1
    ELSE IF num >= 2 * den THEN Log2Floor(num, 2 * den) + 1
    ELSE 0

\* The conversion of an integer to double.
F64Int(i) == [num |-> i, den |-> 1, err |-> 0, exp |-> 0]

\* The double division of a by n, a >= 0 and n >= 1, rounded to the nearest
\* double: the 53-bit mantissa is a * 2^(52 - e) / n rounded to the nearest
\* integer, which is exact when the odd part of n divides a.
F64Div(a, n) ==
    IF a = 0
    THEN F64Int(0)
    ELSE LET g == Gcd(a, n)
             num == a \div g
             den == n \div g
             d == OddPart(den)
             e == Log2Floor(num, den)
             j == Log2Floor(den, d)
             m == ((num % d) * Pow2Mod(52 - e - j, d)) % d
         IN IF d = 1
            THEN [num |-> num, den |-> den, err |-> 0, exp |-> 0]
            ELSE [num |-> num, den |-> den,
                  err |-> IF 2 * m < d THEN 0 - m ELSE d - m,
                  exp |-> e]

\* The double subtraction of the integer s from the double x.  The difference
\* is a double unless it is t > 0 binary places larger than x; then its low t
\* bits are rounded away, to the nearest, a tie to the even mantissa.
F64Sub(x, s) ==
    LET num == x.num - s * x.den
    IN IF x.err = 0
       THEN [num |-> num, den |-> x.den, err |-> 0, exp |-> 0]
       ELSE LET d == OddPart(x.den)
                t == Log2Floor(Abs(num), x.den) - x.exp
                \* the low t + 1 bits of the mantissa of x
                y == CHOOSE k \in 0..(d - 1) :
                         (x.err + k * Pow2(t + 1)) % d = 0
                mant == ((x.err + y * Pow2(t + 1)) \div d) % Pow2(t + 1)
                \* the low t + 1 bits of the magnitude of the difference
                low1 == IF num < 0 THEN (0 - mant) % Pow2(t + 1) ELSE mant
                low == low1 % Pow2(t)
                odd == low1 >= Pow2(t)
                up == \/ 2 * low > Pow2(t)
                      \/ 2 * low = Pow2(t) /\ odd
                adj == IF up THEN Pow2(t) - low ELSE 0 - low
                sadj == IF num < 0 THEN 0 - adj ELSE adj
            IN IF t <= 0
               THEN [num |-> num, den |-> x.den, err |-> x.err, exp |-> x.exp]
               ELSE [num |-> num, den |-> x.den,
                     err |-> x.err + d * sadj, exp |-> x.exp]

\* rankHand (game.c): the external evaluator's rank of player p's hand
rankHand(ranks, p) == ranks[p]

RECURSIVE SumOver(_, _)
SumOver(f, S) ==
    IF S = {} THEN 0
    ELSE LET x == CHOOSE y \in S : TRUE IN f[x] + SumOver(f, S \ {x})

\* valueOfState (game.c): a folded player loses its commitment; the only
\* non-folded player wins the commitments of the others; at a showdown the
\* pot, the sum of all commitments, is split evenly among the non-folded
\* players of the top rank, and a player's value is its share less its
\* commitment.
valueOfState(g, s, ranks, player) ==
    LET In == {p \in Players(g) : s.playerFolded[p] = 0}
        Top == {p \in In : \A q \in In : rankHand(ranks, q) <= rankHand(ranks, p)}
        pot == SumOver(s.spent, Players(g))
    IN IF s.playerFolded[player] # 0
       THEN F64Int(0 - s.spent[player])
       ELSE IF numFolded(g, s) + 1 = g.numPlayers
       THEN F64Int(SumOver(s.spent, Players(g) \ {player}))
       ELSE IF player \in Top
       THEN F64Sub(F64Div(pot, Cardinality(Top)), s.spent[player])
       ELSE F64Int(0 - s.spent[player])

\* ------------------------------------------------- State's methods (lib.rs)
\* is_finished with the two arms of the match exchanged (mutant)
is_finished_inverted(s) == s.finished = 0

\* State::is_finished
is_finished(s) == s.finished = 1

\* current_player that ignores the round's log (mutant of current_player)
current_player_first(g, s) ==
    (g.firstPlayer[s.round] + s.numActions[s.round]) % g.numPlayers

\* State::current_player
current_player(g, s) == currentPlayer(g, s)

\* State::player_folded
player_folded(g, s, player) ==
    LET idx == player_idx(g, player)
    IN IF idx.ok
       THEN [ok |-> TRUE, val |-> s.playerFolded[idx.val] = 1]
       ELSE [ok |-> FALSE, val |-> FALSE]

\* State::spent_of
spent_of(g, s, player) ==
    LET idx == player_idx(g, player)
    IN IF idx.ok THEN [ok |-> TRUE, val |-> s.spent[idx.val]] ELSE idx

\* isValidAction with tryFixing = 1: an out-of-range raise size is replaced by
\* the nearest bound and the action is reported valid
isValidActionFixing(g, s, a) ==
    IF s.finished # 0 \/ a.type = a_invalid
    THEN FALSE
    ELSE IF a.type = a_raise
    THEN raiseIsValid(g, s).ok
    ELSE isValidAction(g, s, a)

\* is_valid_action that lets the native code fix the action (mutant)
is_valid_action_fixing(g, s, action) ==
    isValidActionFixing(g, s, to_acpc_action(action))

\* is_valid_action that treats the two raise bounds as exclusive (mutant)
is_valid_action_strict(g, s, action) ==
    /\ isValidAction(g, s, to_acpc_action(action))
    /\ \/ action.kind # "Raise"
       \/ LET rv == raiseIsValid(g, s)
          IN rv.min < action.amount /\ action.amount < rv.max

\* State::is_valid_action
is_valid_action(g, s, action) == isValidAction(g, s, to_acpc_action(action))

\* raise_size that reports the out-parameters whatever raiseIsValid returned
\* (mutant of raise_size)
raise_size_ignoring_result(g, s) ==
    LET rv == raiseIsValid(g, s)
    IN [ok |-> TRUE, min |-> rv.min, max |-> rv.max]

\* raise_size with the two out-parameters exchanged (mutant of raise_size)
raise_size_swapped(g, s) ==
    LET rv == raiseIsValid(g, s)
    IN IF rv.ok
       THEN [ok |-> TRUE, min |-> rv.max, max |-> rv.min]
       ELSE [ok |-> FALSE, min |-> 0, max |-> 0]

\* State::raise_size
raise_size(g, s) ==
    LET rv == raiseIsValid(g, s)
    IN IF rv.ok
       THEN [ok |-> TRUE, min |-> rv.min, max |-> rv.max]
       ELSE [ok |-> FALSE, min |-> 0, max |-> 0]

\* do_action without the validity check (mutant of do_action)
do_action_unchecked(g, s, action) ==
    [result |-> "Ok", state |-> doAction(g, to_acpc_action(action), s)]

\* do_action that takes a raise's amount as chips added to the actor's
\* commitment (mutant of do_action)
do_action_increment(g, s, action) ==
    IF ~is_valid_action(g, s, action)
    THEN [result |-> "InvalidAction", state |-> s]
    ELSE [result |-> "Ok",
          state |-> doAction(g,
                             [to_acpc_action(action) EXCEPT
                                 !.size = IF action.kind = "Raise"
                                          THEN @ + s.spent[currentPlayer(g, s)]
                                          ELSE @],
                             s)]

\* State::do_action
do_action(g, s, action) ==
    IF ~is_valid_action(g, s, action)
    THEN [result |-> "InvalidAction", state |-> s]
    ELSE [result |-> "Ok", state |-> doAction(g, to_acpc_action(action), s)]

\* value_of_state that always asks for player 0's value (mutant)
value_of_state_player0(g, s, ranks, player) ==
    IF ~is_finished(s)
    THEN [ok |-> FALSE, err |-> "NotFinished", val |-> F64Int(0)]
    ELSE LET idx == player_idx(g, player)
         IN IF ~idx.ok
            THEN [ok |-> FALSE, err |-> "InvalidPlayerIndex", val |-> F64Int(0)]
            ELSE [ok |-> TRUE, err |-> "",
                  val |-> valueOfState(g, s, ranks, 0)]

\* value_of_state with the sign of the payoff reversed (mutant)
value_of_state_negated(g, s, ranks, player) ==
    IF ~is_finished(s)
    THEN [ok |-> FALSE, err |-> "NotFinished", val |-> F64Int(0)]
    ELSE LET idx == player_idx(g, player)
         IN IF ~idx.ok
            THEN [ok |-> FALSE, err |-> "InvalidPlayerIndex", val |-> F64Int(0)]
            ELSE [ok |-> TRUE, err |-> "",
                  val |-> [valueOfState(g, s, ranks, idx.val) EXCEPT
                              !.num = 0 - @, !.err = 0 - @]]

\* value_of_state without the is_finished check (mutant)
value_of_state_unguarded(g, s, ranks, player) ==
    LET idx == player_idx(g, player)
    IN IF ~idx.ok
       THEN [ok |-> FALSE, err |-> "InvalidPlayerIndex", val |-> F64Int(0)]
       ELSE [ok |-> TRUE, err |-> "",
             val |-> valueOfState(g, s, ranks, idx.val)]

\* State::value_of_state
value_of_state(g, s, ranks, player) ==
    IF ~is_finished(s)
    THEN [ok |-> FALSE, err |-> "NotFinished", val |-> F64Int(0)]
    ELSE LET idx == player_idx(g, player)
         IN IF ~idx.ok
            THEN [ok |-> FALSE, err |-> "InvalidPlayerIndex", val |-> F64Int(0)]
            ELSE [ok |-> TRUE, err |-> "",
                  val |-> valueOfState(g, s, ranks, idx.val)]

\* State::num_folded
num_folded(g, s) == numFolded(g, s)

\* num_called that calls numAllIn (mutant)
num_called_all_in(g, s) == numAllIn(g, s)

\* State::num_called
num_called(g, s) == numCalled(g, s)

\* State::num_all_in
num_all_in(g, s) == numAllIn(g, s)

\* num_acting_player that calls numFolded (mutant)
num_acting_player_num_folded(g, s) == numFolded(g, s)

\* num_acting_player that calls numAllIn (mutant)
num_acting_player_all_in(g, s) == numAllIn(g, s)

\* State::num_acting_player
num_acting_player(g, s) == numActingPlayers(g, s)

\* num_actions that reads the first round's counter (mutant)
num_actions_first_round(s) == s.numActions[0]

\* State::num_actions
num_actions(s) == s.numActions[s.round]

\* State::spents: the commitments of the game's players
spents(g, s) == [p \in Players(g) |-> s.spent[p]]

\* max_spend that reads minNoLimitRaiseTo (mutant)
max_spend_min_raise(s) == s.minNoLimitRaiseTo

\* State::max_spend
max_spend(s) == s.maxSpent

\* money with the operands of the subtraction exchanged (mutant)
money_exchanged(g, s, player) ==
    LET st == stack_size(g, player)
        sp == spent_of(g, s, player)
    IN IF ~st.ok THEN st
       ELSE IF ~sp.ok THEN sp
       ELSE [ok |-> TRUE, val |-> sp.val - st.val]

\* State::money
money(g, s, player) ==
    LET st == stack_size(g, player)
        sp == spent_of(g, s, player)
    IN IF ~st.ok THEN st
       ELSE IF ~sp.ok THEN sp
       ELSE [ok |-> TRUE, val |-> st.val - sp.val]

\* State::ante
ante(g, s, player) == spent_of(g, s, player)

\* State::new_acpc_state: the zeroed native state State::new hands to
\* initState
new_acpc_state(g) ==
    [ maxSpent |-> 0,
      minNoLimitRaiseTo |-> 0,
      spent |-> [p \in Players(g) |-> 0],
      action |-> [r \in Rounds(g) |-> <<>>],
      actingPlayer |-> [r \in Rounds(g) |-> <<>>],
      numActions |-> [r \in Rounds(g) |-> 0],
      round |-> 0,
      finished |-> 0,
      playerFolded |-> [p \in Players(g) |-> 0] ]

\* ---------------------------------------------------------- specification
\* State::new that returns the zeroed state without calling initState
\* (mutant of Init)
Init_without_initState ==
    /\ game \in Games
    /\ state_ = new_acpc_state(game)
    /\ handRank = [p \in Players(game) |-> 1]

\* State::new.  No card is dealt: every hand has the same rank.
Init ==
    /\ game \in Games
    /\ state_ = initState(game)
    /\ handRank = [p \in Players(game) |-> 1]

\* State::do_action: a rejected action leaves the state as it is.
Apply(action) ==
    LET r == do_action(game, state_, action)
    IN /\ state_' = r.state
       /\ UNCHANGED <<game, handRank>>

\* The number of actions logged in the hand so far.
RECURSIVE HandActions(_, _)
HandActions(s, r) ==
    IF r < 0 THEN 0 ELSE s.numActions[r] + HandActions(s, r - 1)

DoFold == Apply(Fold)
DoCall == Apply(Call)
DoRaise == \E t \in RaiseInputs(game, state_.round) : Apply(Raise(t))
DoInvalid == Apply(Invalid)

\* Every order the hands of n players can be in: player p's entry is the
\* number of distinct hand strengths up to p's.
DenseOrders(n) ==
    {f \in [0..(n - 1) -> 1..n] :
        \A k \in 2..n : (\E p \in 0..(n - 1) : f[p] = k)
                            => (\E p \in 0..(n - 1) : f[p] = k - 1)}

\* The orders that differ from order f at most in the place of player p's
\* hand among the others.
HoleOrders(n) ==
    [f \in DenseOrders(n) |->
        [p \in 0..(n - 1) |->
            {h \in DenseOrders(n) :
                \A q, r \in (0..(n - 1)) \ {p} :
                    (h[q] <= h[r]) <=> (f[q] <= f[r])}]]

\* The tables for the games of two, three and four players.
RankOrders2 == DenseOrders(2)
RankOrders3 == DenseOrders(3)
RankOrders4 == DenseOrders(4)
HoleOrders2 == HoleOrders(2)
HoleOrders3 == HoleOrders(3)
HoleOrders4 == HoleOrders(4)
RankOrders(g) ==
    CASE g.numPlayers = 2 -> RankOrders2
      [] g.numPlayers = 3 -> RankOrders3
      [] OTHER -> RankOrders4

\* State::set_hole_cards: the cards of one player are replaced, at any time,
\* which puts that player's hand anywhere in the order of the others and
\* leaves the others' order as it is; a player index out of range is an error
\* that changes nothing.
SetHoleCards ==
    /\ \E player \in PlayerArgs(game) :
           LET idx == player_idx(game, player)
               table == CASE game.numPlayers = 2 -> HoleOrders2
                          [] game.numPlayers = 3 -> HoleOrders3
                          [] OTHER -> HoleOrders4
           IN IF idx.ok
              THEN handRank' \in table[handRank][idx.val]
              ELSE handRank' = handRank
    /\ UNCHANGED <<game, state_>>

\* State::set_board_cards: the board is replaced, at any time, which may
\* put the hands in any order.
SetBoardCards ==
    /\ handRank' \in RankOrders(game)
    /\ UNCHANGED <<game, state_>>

Next ==
    DoFold \/ DoCall \/ DoRaise \/ DoInvalid \/ SetHoleCards \/ SetBoardCards

Spec == Init /\ [][Next]_vars

\* The betting operations alone.  The card setters leave game and state_ as
\* they are and do_action leaves the cards as they are, so the betting states
\* of Spec are those of BetSpec, and in each of them the setters can bring
\* about every order of RankOrders(game).
BetNext == DoFold \/ DoCall \/ DoRaise \/ DoInvalid

BetSpec == Init /\ [][BetNext]_vars

\* ------------------------------------------------------------------ claims
\* Inputs the claims probe do_action, is_valid_action and raise_size with: the
\* driver's raise targets and the targets around the state's bounds.

ProbeTargets(g, s) ==
    RaiseInputs(g, 0)
    \cup RaiseInputs(g, 1)
    \cup TestValidityTargets(g)
    \cup {0, s.maxSpent, s.maxSpent + 1}
    \cup (IF g.bettingType = "noLimitBetting" /\ s.finished = 0
          THEN LET st == g.stack[currentPlayer(g, s)]
               IN {s.minNoLimitRaiseTo - 1, s.minNoLimitRaiseTo,
                   s.minNoLimitRaiseTo + 1, st - 1, st, st + 1}
          ELSE {})
    \cup (IF g.bettingType = "limitBetting" /\ s.finished = 0
          THEN LET to == s.maxSpent + g.raiseSize[s.round]
               IN {g.raiseSize[s.round], to - 1, to, to + 1}
          ELSE {})

ProbeActions(g, s) ==
    {Fold, Call, Invalid} \cup {Raise(t) : t \in ProbeTargets(g, s)}

\* A step in which do_action succeeded: the round's log grew by one entry.
Acted == state_'.numActions[state_.round] = state_.numActions[state_.round] + 1
\* The action and the actor of that step.
ActedAction == state_'.action[state_.round][state_'.numActions[state_.round]]
ActedPlayer ==
    state_'.actingPlayer[state_.round][state_'.numActions[state_.round]]

NonFolded(g, s) == {p \in Players(g) : s.playerFolded[p] = 0}

\* C1: in every reachable state, finished or not, do_action with an action
\* for which is_valid_action is false reports InvalidAction and returns the
\* state unchanged in every field (hence the same current player).
C1_InvalidActionLeavesState ==
    \A a \in ProbeActions(game, state_) :
        ~is_valid_action(game, state_, a) =>
            LET r == do_action(game, state_, a)
            IN /\ r.result = "InvalidAction"
               /\ r.state = state_

\* After the first round a raise to maxSpent and the Invalid action are
\* invalid, and do_action rejects them and returns the state as it is.
C1_Witness ==
    /\ do_action(game, state_, Raise(state_.maxSpent))
           = [result |-> "InvalidAction", state |-> state_]
    /\ do_action(game, state_, Invalid)
           = [result |-> "InvalidAction", state |-> state_]
    /\ state_.finished = 0
    /\ state_.round = 1
    /\ state_.numActions[1] > 0
    /\ ~is_valid_action(game, state_, Raise(state_.maxSpent))

\* The doubles vals[p], p in S, add up to exactly 0: the unrounded parts do,
\* and so do the rounding errors, which are too small to cancel anything else.
F64SumIsZero(vals, S) ==
    LET RECURSIVE Factorial(_)
        Factorial(n) == IF n <= 1 THEN 1 ELSE n * Factorial(n - 1)
        scale == Factorial(Cardinality(S))
        Inexact == {p \in S : vals[p].err # 0}
        low == CHOOSE e \in {vals[p].exp : p \in Inexact} :
                   \A p \in Inexact : e <= vals[p].exp
    IN /\ SumOver([p \in S |-> vals[p].num * (scale \div vals[p].den)], S) = 0
       /\ Inexact # {} =>
              SumOver([p \in Inexact |->
                         vals[p].err * (scale \div OddPart(vals[p].den))
                             * Pow2(vals[p].exp - low)],
                      Inexact) = 0

\* C2: in every finished state the payoffs of all players sum to exactly 0,
\* whatever order the setters have put the hands in.
C2_ZeroSum ==
    is_finished(state_) =>
        \A ranks \in RankOrders(game) :
            /\ \A p \in Players(game) :
                   value_of_state(game, state_, ranks, p).ok
            /\ F64SumIsZero([p \in Players(game) |->
                                value_of_state(game, state_, ranks, p).val],
                            Players(game))

\* C3: a folded player stays folded in every later state and is never the
\* current player of a later unfinished state.
C3_FoldedStaysOut ==
    [][ /\ \A p \in Players(game) :
               state_.playerFolded[p] = 1 => state_'.playerFolded[p] = 1
        /\ \A p \in Players(game) :
               (state_'.playerFolded[p] = 1 /\ ~is_finished(state_'))
                   => /\ player_folded(game, state_', p).val
                      /\ current_player(game, state_') # p ]_vars

\* A player folded in the first round and the hand is still running two
\* rounds later.
C3_Witness ==
    /\ ~is_finished(state_)
    /\ state_.round >= 2
    /\ numFolded(game, state_) = 1
    /\ \E i \in 1..state_.numActions[0] : state_.action[0][i].type = a_fold

\* C4: in every unfinished state Raise(target) is valid exactly when
\* raise_size() succeeds and minTarget <= target <= maxTarget, both bounds
\* included: do_action accepts a raise to exactly minTarget and to exactly
\* maxTarget; when raise_size() fails every Raise is invalid.
C4_RaiseValidIffInBounds ==
    ~is_finished(state_) =>
        LET rs == raise_size(game, state_)
        IN /\ \A t \in ProbeTargets(game, state_) :
                  is_valid_action(game, state_, Raise(t))
                      <=> (rs.ok /\ rs.min <= t /\ t <= rs.max)
           /\ rs.ok =>
                  /\ do_action(game, state_, Raise(rs.min)).result = "Ok"
                  /\ do_action(game, state_, Raise(rs.max)).result = "Ok"

\* In the two-player no-limit game the first player called and do_action then
\* accepted the big blind's raise to exactly maxTarget = 20000 (all-in), where
\* minTarget was 200.
C4_Witness ==
    /\ game = HoldemNolimit2pReverseBlinds
    /\ ~is_finished(state_)
    /\ state_.numActions[0] = 2
    /\ state_.action[0][1].type = a_call
    /\ state_.action[0][2] = [type |-> a_raise, size |-> 20000]
    /\ state_.spent[state_.actingPlayer[0][2]] = 20000

\* C5 (as stated): a valid Raise(target) lies strictly inside the bounds of
\* raise_size(): minTarget < target < maxTarget.
C5_Original ==
    \A t \in ProbeTargets(game, state_) :
        is_valid_action(game, state_, Raise(t)) =>
            LET rs == raise_size(game, state_)
            IN rs.ok /\ rs.min < t /\ t < rs.max

\* C5 (amended): a Raise(target) is valid only if raise_size(), computed
\* before the action, succeeds and target lies within its bounds, the bounds
\* themselves included.
C5_ValidRaiseWithinBounds ==
    \A t \in ProbeTargets(game, state_) :
        is_valid_action(game, state_, Raise(t)) =>
            LET rs == raise_size(game, state_)
            IN rs.ok /\ rs.min <= t /\ t <= rs.max

\* The raise to exactly minTarget = 200 was accepted in the reference game,
\* and a raise to the new minTarget = 300 is valid, 299 and 20001 are not.
C5_Witness ==
    /\ game = HoldemNolimit3p
    /\ state_.numActions[0] = 1
    /\ state_.action[0][1] = [type |-> a_raise, size |-> 200]
    /\ raise_size(game, state_) = [ok |-> TRUE, min |-> 300, max |-> 20000]
    /\ is_valid_action(game, state_, Raise(300))
    /\ is_valid_action(game, state_, Raise(20000))
    /\ ~is_valid_action(game, state_, Raise(299))
    /\ ~is_valid_action(game, state_, Raise(20001))

\* The minimum raise increment of a no-limit state.
Inc(s) == s.minNoLimitRaiseTo - s.maxSpent

\* The largest blind of the game.
BigBlind(g) ==
    CHOOSE m \in {g.blind[p] : p \in Players(g)} :
        \A p \in Players(g) : g.blind[p] <= m

\* In a no-limit state where the actor can raise, raise_size() is
\* (min(maxSpent + inc, stack[actor]), stack[actor]); inc is the big blind
\* before the first action; the reference values of the three-player game.
C6_RaiseSizeInState ==
    (game.bettingType = "noLimitBetting" /\ ~is_finished(state_)) =>
        LET rs == raise_size(game, state_)
            actor == current_player(game, state_)
            log == state_.action[0]
        IN /\ rs.ok =>
                 /\ rs.min = Min(state_.maxSpent + Inc(state_),
                                 game.stack[actor])
                 /\ rs.max = game.stack[actor]
           /\ HandActions(state_, game.numRounds - 1) = 0
                 => Inc(state_) = BigBlind(game)
           /\ (game = HoldemNolimit3p /\ state_.round = 0) =>
                 /\ log = <<>> => (rs.ok /\ rs.min = 200 /\ rs.max = 20000)
                 /\ log = <<[type |-> a_raise, size |-> 200]>>
                       => (rs.ok /\ rs.min = 300 /\ rs.max = 20000)
                 /\ log = <<[type |-> a_raise, size |-> 200],
                            [type |-> a_raise, size |-> 1000]>>
                       => (rs.ok /\ rs.min = 1800 /\ rs.max = 20000)

\* After a successful raise to T from maxSpent M the increment is T - M.
C6_RaiseSizeAfterRaise ==
    (game.bettingType = "noLimitBetting" /\ Acted
        /\ ActedAction.type = a_raise)
    => Inc(state_') = ActedAction.size - state_.maxSpent

\* C6: in a no-limit game, whenever the actor can raise, raise_size() returns
\* (min(maxSpent + inc, stack[actor]), stack[actor]), where inc is the big
\* blind after initialization and, after a successful raise to T from
\* previous maxSpent M, inc becomes T - M.  In the reference 3-player game
\* this gives (200, 20000) after init, (300, 20000) after Raise(200) and
\* (1800, 20000) after a further Raise(1000).
C6_RaiseSizeNoLimit ==
    []C6_RaiseSizeInState /\ [][C6_RaiseSizeAfterRaise]_vars

\* The reference game after Raise(200) and Raise(1000): raise_size() is
\* (1800, 20000).
C6_Witness ==
    /\ game = HoldemNolimit3p
    /\ state_.round = 0
    /\ state_.action[0] = <<[type |-> a_raise, size |-> 200],
                            [type |-> a_raise, size |-> 1000]>>
    /\ raise_size(game, state_) = [ok |-> TRUE, min |-> 1800, max |-> 20000]
    /\ Inc(state_) = 800

\* C7: along the successful actions of a hand num_acting_players() never
\* increases, and every successful Fold decreases it by exactly one while
\* num_folded() increases by exactly one.
C7_ActingPlayersNonIncreasing ==
    [][ /\ num_acting_player(game, state_') <= num_acting_player(game, state_)
        /\ (Acted /\ ActedAction.type = a_fold) =>
              /\ num_acting_player(game, state_')
                     = num_acting_player(game, state_) - 1
              /\ num_folded(game, state_') = num_folded(game, state_) + 1
       ]_vars

\* One player has folded and another is all-in: one acting player is left of
\* three.
C7_Witness ==
    /\ game.numPlayers = 3
    /\ num_folded(game, state_) = 1
    /\ num_all_in(game, state_) = 1
    /\ num_acting_player(game, state_) = 1


\* C8: before the hand is finished value_of_state(p) is the NotFinished error
\* for every p; once it is finished it is a payoff for every p < numPlayers
\* and an error for every p >= numPlayers.
C8_ValueOnlyWhenFinished ==
    \A p \in PlayerArgs(game), ranks \in RankOrders(game) :
        LET v == value_of_state(game, state_, ranks, p)
        IN IF ~is_finished(state_)
           THEN ~v.ok /\ v.err = "NotFinished"
           ELSE v.ok <=> p < game.numPlayers

\* A hand that went to the showdown of the last round after some raise:
\* payoffs exist for the players and not for the argument numPlayers.
C8_Witness ==
    /\ is_finished(state_)
    /\ num_folded(game, state_) = 0
    /\ state_.round = game.numRounds - 1
    /\ state_.maxSpent > BigBlind(game)
    /\ \A ranks \in RankOrders(game) :
           /\ value_of_state(game, state_, ranks, 0).ok
           /\ ~value_of_state(game, state_, ranks, game.numPlayers).ok

\* The non-folded players holding the top rank among the non-folded players.
Winners(g, s, ranks) ==
    {p \in NonFolded(g, s) : \A q \in NonFolded(g, s) : ranks[q] <= ranks[p]}

Pot(g, s) == SumOver(s.spent, Players(g))

\* Every payoff is the even split of the whole pot among the winners: a
\* winner's payoff is pot/|winners| - spent[winner], computed in doubles, and
\* every other player's is -spent[that player].
EvenSplit(g, s, ranks) ==
    \A p \in Players(g) :
        value_of_state(g, s, ranks, p).val =
            IF p \in Winners(g, s, ranks)
            THEN F64Sub(F64Div(Pot(g, s), Cardinality(Winners(g, s, ranks))),
                        s.spent[p])
            ELSE F64Int(0 - s.spent[p])

\* C9: in a finished state with at least two non-folded players the pot (sum
\* of spent over all players, folded ones included) is split evenly among the
\* non-folded players holding the top rank: each winner's payoff is
\* pot/|winners| - spent[winner] and every other player's payoff is
\* -spent[that player].  With three players each committed to 100, player 0
\* ranked lowest and players 1 and 2 tied for top, the payoffs are
\* (-100, 50, 50); when all three tie, each payoff is 0 (none of the three
\* having folded).
C9_EvenSplit ==
    (is_finished(state_) /\ Cardinality(NonFolded(game, state_)) >= 2) =>
        \A ranks \in RankOrders(game) :
            LET val(p) == value_of_state(game, state_, ranks, p).val
            IN /\ EvenSplit(game, state_, ranks)
               /\ (game.numPlayers = 3
                   /\ num_folded(game, state_) = 0
                   /\ \A p \in Players(game) : state_.spent[p] = 100) =>
                     /\ (ranks[0] < ranks[1] /\ ranks[1] = ranks[2])
                           => /\ val(0) = F64Int(0 - 100)
                              /\ val(1) = F64Int(50)
                              /\ val(2) = F64Int(50)
                     /\ (ranks[0] = ranks[1] /\ ranks[1] = ranks[2])
                           => \A p \in Players(game) : val(p) = F64Int(0)

\* The reference showdown: all three players called to 100, player 0 ranked
\* lowest, players 1 and 2 tied.
C9_Witness ==
    /\ game = HoldemNolimit3p
    /\ is_finished(state_)
    /\ \A p \in Players(game) : state_.spent[p] = 100
    /\ \E ranks \in RankOrders(game) :
           /\ ranks[0] < ranks[1]
           /\ ranks[1] = ranks[2]
           /\ value_of_state(game, state_, ranks, 0).val = F64Int(0 - 100)
           /\ value_of_state(game, state_, ranks, 1).val = F64Int(50)
           /\ value_of_state(game, state_, ranks, 2).val = F64Int(50)

\* C10: in every finished state a folded player's payoff is -spent[p]; when
\* exactly one player has not folded, that player's payoff is the sum of the
\* other players' spent, whatever the hand ranks are.
C10_FoldedLosesSpent ==
    is_finished(state_) =>
        \A ranks \in RankOrders(game) :
            LET val(p) == value_of_state(game, state_, ranks, p).val
            IN /\ \A p \in Players(game) :
                      state_.playerFolded[p] = 1
                          => val(p) = F64Int(0 - state_.spent[p])
               /\ \A q \in Players(game) :
                      NonFolded(game, state_) = {q}
                          => val(q) = F64Int(SumOver(state_.spent,
                                                     Players(game) \ {q}))

\* Two of three players folded after a raise; the remaining player holds the
\* lowest rank.
C10_Witness ==
    /\ is_finished(state_)
    /\ game.numPlayers = 3
    /\ num_folded(game, state_) = 2
    /\ state_.maxSpent > BigBlind(game)
    /\ \E q \in NonFolded(game, state_), ranks \in RankOrders(game) :
           /\ \A p \in Players(game) \ {q} : ranks[q] < ranks[p]
           /\ value_of_state(game, state_, ranks, q).val.num > 0

\* C11: the state produced by initialization has spent[p] = blind[p] for every
\* player, maxSpent = the largest blind, round 0, finished false, nobody
\* folded, no action in the round, and its current player is the game's first
\* player of round 0; in the reference game spents = [50, 100, 0] and the
\* current player is 2.
C11_InitialState ==
    HandActions(state_, game.numRounds - 1) = 0 =>
        /\ \A p \in Players(game) :
               /\ spent_of(game, state_, p).val = game.blind[p]
               /\ ~player_folded(game, state_, p).val
        /\ state_.maxSpent = BigBlind(game)
        /\ state_.round = 0
        /\ ~is_finished(state_)
        /\ num_folded(game, state_) = 0
        /\ num_actions(state_) = 0
        /\ num_called(game, state_) = 0
        /\ current_player(game, state_) = game.firstPlayer[0]
        /\ game = HoldemNolimit3p =>
               /\ state_.spent = Arr(<<50, 100, 0>>)
               /\ current_player(game, state_) = 2

\* The reference game right after State::new.
C11_Witness ==
    /\ HandActions(state_, game.numRounds - 1) = 0
    /\ game = HoldemNolimit3p
    /\ state_.spent = Arr(<<50, 100, 0>>)
    /\ state_.maxSpent = 100
    /\ current_player(game, state_) = 2

\* C12: in a no-limit game a successful do_action(Raise(T)) by actor a makes
\* spent[a] exactly T and maxSpent exactly T and leaves the spent and the
\* folded flag of every other player unchanged.
C12_RaiseSetsAbsoluteTarget ==
    (game.bettingType = "noLimitBetting" /\ ~is_finished(state_)) =>
        \A t \in ProbeTargets(game, state_) :
            is_valid_action(game, state_, Raise(t)) =>
                LET r == do_action(game, state_, Raise(t))
                    a == current_player(game, state_)
                IN /\ r.result = "Ok"
                   /\ r.state.spent[a] = t
                   /\ r.state.maxSpent = t
                   /\ \A q \in Players(game) \ {a} :
                          /\ r.state.spent[q] = state_.spent[q]
                          /\ r.state.playerFolded[q] = state_.playerFolded[q]

\* After a raise to 200 and a fold, a raise to 1000 was accepted from the big
\* blind, who had committed 100: the commitment is 1000, not 1100 or 1200.
C12_Witness ==
    /\ game.bettingType = "noLimitBetting"
    /\ state_.round = 0
    /\ state_.numActions[0] >= 3
    /\ LET n == state_.numActions[0]
           a == state_.actingPlayer[0][n]
       IN /\ state_.action[0][n] = [type |-> a_raise, size |-> 1000]
          /\ state_.spent[a] = 1000
          /\ state_.maxSpent = 1000
          /\ game.blind[a] = 100
          /\ \E i \in 1..(n - 1) :
                 /\ state_.actingPlayer[0][i] # a
                 /\ state_.action[0][i] = [type |-> a_raise, size |-> 200]
          /\ num_folded(game, state_) = 1

\* C13: a state with exactly one non-folded player, as a successful Fold
\* leaves it, is finished, whatever the round and whether or not the remaining
\* player is all-in; no unfinished state has fewer than two non-folded
\* players.
C13_LastFoldFinishes ==
    /\ Cardinality(NonFolded(game, state_)) >= 1
    /\ num_folded(game, state_) + 1 >= game.numPlayers => is_finished(state_)
    /\ ~is_finished(state_) => Cardinality(NonFolded(game, state_)) >= 2

\* After the first round a player raised all-in and the last opponent folded:
\* the hand is finished there and then, no action was taken in a later round.
C13_Witness ==
    /\ is_finished(state_)
    /\ \E r \in Rounds(game) :
           /\ r >= 1
           /\ r < game.numRounds - 1
           /\ state_.numActions[r + 1] = 0
           /\ LET n == state_.numActions[r]
              IN /\ n >= 2
                 /\ state_.action[r][n].type = a_fold
                 /\ state_.action[r][n - 1].type = a_raise
    /\ \E q \in Players(game) :
           /\ NonFolded(game, state_) = {q}
           /\ state_.spent[q] = game.stack[q]

\* The players that have neither folded nor are all-in.
Acting(g, s) ==
    {p \in Players(g) : s.playerFolded[p] = 0 /\ s.spent[p] < g.stack[p]}

\* Player p made or called the standing bet of round r: p called or raised in
\* the round and nobody raised after that.
ActedOnBet(s, r, p) ==
    \E i \in 1..s.numActions[r] :
        /\ s.actingPlayer[r][i] = p
        /\ s.action[r][i].type \in {a_call, a_raise}
        /\ \A j \in (i + 1)..s.numActions[r] : s.action[r][j].type # a_raise

\* C14: when a successful action leaves at least two non-folded players, at
\* most one of them not all-in, and that one has made or called the standing
\* bet, the hand is finished in the resulting state, in whatever round the
\* action was taken.
C14_AllInFinishes ==
    [][ (/\ Acted
         /\ Cardinality(NonFolded(game, state_')) >= 2
         /\ num_acting_player(game, state_') <= 1
         /\ \A p \in Acting(game, state_') :
                ActedOnBet(state_', state_.round, p))
        => is_finished(state_') ]_vars

\* In the first round of the two-player game one player raised all-in and the
\* other called: the hand is finished with both players all-in.
C14_Witness ==
    /\ game = HoldemNolimit2pReverseBlinds
    /\ is_finished(state_)
    /\ state_.numActions[0] = 2
    /\ state_.action[0][1] = [type |-> a_raise, size |-> 20000]
    /\ state_.action[0][2].type = a_call
    /\ state_.numActions[1] = 0
    /\ num_all_in(game, state_) = 2
    /\ num_acting_player(game, state_) = 0

\* In a finished state no action is valid and do_action rejects every action.
C15_NoActionWhenFinished ==
    is_finished(state_) =>
        \A a \in ProbeActions(game, state_) :
            /\ ~is_valid_action(game, state_, a)
            /\ do_action(game, state_, a).result = "InvalidAction"

\* A step taken from a finished state leaves the commitments, maxSpent, the
\* round, the folded flags and the finished flag as they were.
C15_FinishedStateFrozen ==
    is_finished(state_) =>
        /\ HandActions(state_', game.numRounds - 1)
               = HandActions(state_, game.numRounds - 1)
        /\ state_'.spent = state_.spent
        /\ state_'.maxSpent = state_.maxSpent
        /\ state_'.round = state_.round
        /\ state_'.playerFolded = state_.playerFolded
        /\ state_'.finished = state_.finished

\* C15: Finished is absorbing: in every finished state no action is valid,
\* every do_action call returns InvalidAction, and spent, maxSpent, round, the
\* folded flags and the finished flag never change again.
C15_FinishedAbsorbing ==
    []C15_NoActionWhenFinished /\ [][C15_FinishedStateFrozen]_vars

\* A hand finished at a showdown with money committed beyond the blinds:
\* do_action rejects a call and returns the state as it is.
C15_Witness ==
    /\ is_finished(state_)
    /\ do_action(game, state_, Call)
           = [result |-> "InvalidAction", state |-> state_]
    /\ num_folded(game, state_) = 0
    /\ state_.maxSpent > BigBlind(game)
    /\ state_.round = game.numRounds - 1

\* Player p has an entry in the log of round r.
ActedInRound(s, r, p) ==
    \E i \in 1..s.numActions[r] : s.actingPlayer[r][i] = p

\* The round-completion condition as stated: every non-folded, non-all-in
\* player has acted in round r and every non-folded player's commitment equals
\* maxSpent.
C16_StatedComplete(g, s, r) ==
    /\ \A p \in Acting(g, s) : ActedInRound(s, r, p)
    /\ \A p \in NonFolded(g, s) : s.spent[p] = s.maxSpent

\* What follows from a completion condition c for a successful action taken in
\* round r.
C16_Outcome(c, r) ==
    /\ (c /\ r + 1 < game.numRounds) =>
           /\ state_'.round = r + 1
           /\ num_actions(state_') = 0
           /\ num_called(game, state_') = 0
    /\ (c /\ r + 1 = game.numRounds) => is_finished(state_')
    /\ ~c => /\ state_'.round = r
             /\ state_'.finished = state_.finished

C16_HandEnded(g, s, r) ==
    \/ Cardinality(NonFolded(g, s)) = 1
    \/ /\ Cardinality(Acting(g, s)) <= 1
       /\ \A p \in Acting(g, s) : ActedOnBet(s, r, p)

C17_SpentWithinStack ==
    \A p \in Players(game) :
        /\ 0 <= state_.spent[p]
        /\ state_.spent[p] <= game.stack[p]
        /\ ante(game, state_, p) = [ok |-> TRUE, val |-> state_.spent[p]]
        /\ money(game, state_, p).ok
        /\ money(game, state_, p).val = game.stack[p] - state_.spent[p]
        /\ money(game, state_, p).val >= 0

\* The player with the larger stack raised all-in to 1000 and the player with
\* a stack of 120 called: the caller's commitment is its whole stack, below
\* the bet.
C17_Witness ==
    /\ game = ShortStackNolimit2p
    /\ state_.maxSpent = 1000
    /\ state_.spent[0] = 1000
    /\ money(game, state_, 0).val = 0
    /\ state_.spent[1] = 120
    /\ money(game, state_, 1).val = 0
    /\ state_.playerFolded[1] = 0
    /\ state_.numActions[0] = 3
    /\ state_.action[0][2] = [type |-> a_raise, size |-> 1000]
    /\ state_.action[0][3].type = a_call

\* C18: in every reachable state maxSpent is the largest commitment among the
\* non-folded players: one of them has committed maxSpent and none of them
\* more.
C18_MaxSpentIsMaximum ==
    /\ \E p \in NonFolded(game, state_) :
           spents(game, state_)[p] = max_spend(state_)
    /\ \A p \in NonFolded(game, state_) :
           spents(game, state_)[p] <= max_spend(state_)

\* The big blind of the three-player game folded after the two other players
\* had called: it held the highest commitment, 100, when it folded, and
\* maxSpent is still the commitment of the two callers.
C18_Witness ==
    /\ game = HoldemNolimit3p
    /\ ~is_finished(state_)
    /\ state_.numActions[0] = 3
    /\ state_.action[0][1].type = a_call
    /\ state_.action[0][2].type = a_call
    /\ state_.action[0][3].type = a_fold
    /\ state_.actingPlayer[0][3] = 1
    /\ state_.playerFolded[1] = 1
    /\ spents(game, state_)[1] = 100
    /\ max_spend(state_) = 100
    /\ \A p \in NonFolded(game, state_) : spents(game, state_)[p] = 100

\* In an unfinished state the current actor has neither folded nor is all-in
\* and may call; the Invalid action is valid in no state.
C19_ActorCanCall ==
    /\ ~is_valid_action(game, state_, Invalid)
    /\ ~is_finished(state_) =>
           LET a == current_player(game, state_)
           IN /\ a \in Players(game)
              /\ ~player_folded(game, state_, a).val
              /\ money(game, state_, a).val > 0
              /\ is_valid_action(game, state_, Call)
              /\ \E x \in ProbeActions(game, state_) :
                     is_valid_action(game, state_, x)

\* C19: in every unfinished state the current actor is neither folded nor
\* all-in, Fold and Call are both valid for it, also when its commitment
\* equals maxSpent, and Invalid is valid in no state; hence every unfinished
\* state has a valid action.
C19_ActorCanAct ==
    /\ C19_ActorCanCall
    /\ ~is_finished(state_) => is_valid_action(game, state_, Fold)

\* The big blind of the three-player game is to act after two calls: its
\* commitment equals maxSpent, and it may call and it may fold.
C19_Witness ==
    /\ game = HoldemNolimit3p
    /\ ~is_finished(state_)
    /\ state_.round = 0
    /\ num_actions(state_) = 2
    /\ num_called(game, state_) = 2
    /\ current_player(game, state_) = 1
    /\ spent_of(game, state_, 1).val = max_spend(state_)
    /\ is_valid_action(game, state_, Call)
    /\ is_valid_action(game, state_, Fold)

\* num_called is 0 in the initial state.
C20_InitiallyZero ==
    HandActions(state_, game.numRounds - 1) = 0 => num_called(game, state_) = 0

\* num_called is 0 whenever the hand has moved to another round.
C20_ZeroInNewRound ==
    state_'.round # state_.round => num_called(game, state_') = 0

\* The step is a successful call by a player that is not all-in afterwards.
C20_LiveCall ==
    /\ Acted
    /\ ActedAction.type = a_call
    /\ state_'.spent[ActedPlayer] < game.stack[ActedPlayer]

\* C20 (as stated): num_called is 0 in the initial state, 0 immediately after
\* every successful raise, 0 at the start of every new round, and each
\* successful Call by a player who stays not all-in increases it by one.
C20_Original ==
    /\ []C20_InitiallyZero
    /\ [][ /\ C20_ZeroInNewRound
           /\ (Acted /\ ActedAction.type = a_raise) =>
                  num_called(game, state_') = 0
           /\ C20_LiveCall =>
                  num_called(game, state_') = num_called(game, state_) + 1
       ]_vars

\* C20: num_called counts the players not all-in that made or called the last
\* raise of the current round: it is 0 in the initial state; immediately after
\* a successful raise it is 1 when the raiser is not all-in and 0 when it is,
\* and the round is unchanged; it is 0 whenever a new round starts; each
\* successful Call by a player who stays not all-in and that leaves the hand
\* in the same round increases it by exactly one.
C20_NumCalled ==
    /\ []C20_InitiallyZero
    /\ [][ /\ C20_ZeroInNewRound
           /\ (Acted /\ ActedAction.type = a_raise) =>
                  /\ state_'.round = state_.round
                  /\ num_called(game, state_') =
                         IF state_'.spent[ActedPlayer] < game.stack[ActedPlayer]
                         THEN 1 ELSE 0
           /\ (C20_LiveCall /\ state_'.round = state_.round) =>
                  num_called(game, state_') = num_called(game, state_) + 1
       ]_vars

\* The tested line of the three-player game: call, raise to 200, raise to
\* 1000, call; the raiser and the caller are counted.
C20_Witness ==
    /\ game = HoldemNolimit3p
    /\ state_.round = 0
    /\ num_actions(state_) = 4
    /\ state_.action[0][1].type = a_call
    /\ state_.action[0][2] = [type |-> a_raise, size |-> 200]
    /\ state_.action[0][3] = [type |-> a_raise, size |-> 1000]
    /\ state_.action[0][4].type = a_call
    /\ num_called(game, state_) = 2

\* The raise cap of the current round has been reached.
CapReached(g, s) == numRaises(s) >= g.maxRaises[s.round]

\* The commitment a limit-game raise leads to.
LimitRaiseTarget(g, s) ==
    Min(s.maxSpent + g.raiseSize[s.round], g.stack[current_player(g, s)])

\* When raise_size fails no Raise is valid.
C21_NoRaiseWhenNotRaisable ==
    (~is_finished(state_) /\ ~raise_size(game, state_).ok) =>
        \A t \in ProbeTargets(game, state_) :
            ~is_valid_action(game, state_, Raise(t))

\* A step that stays in a round whose raise cap is reached leaves the cap
\* reached and raise_size failing.
C21_CapHoldsInRound ==
    (/\ CapReached(game, state_)
     /\ ~is_finished(state_')
     /\ state_'.round = state_.round)
    => /\ CapReached(game, state_')
       /\ ~raise_size(game, state_').ok

\* C21: raise_size fails exactly when the limit game's raise cap of the round
\* is reached or the actor's stack is at most maxSpent; in a limit game where
\* it succeeds the only valid raise target is
\* min(maxSpent + raiseSize[round], stack[actor]); once the cap is reached no
\* Raise is valid until the round advances.
C21_NotRaisable ==
    /\ [](~is_finished(state_) =>
            /\ ~raise_size(game, state_).ok <=>
                   \/ /\ game.bettingType = "limitBetting"
                      /\ CapReached(game, state_)
                   \/ game.stack[current_player(game, state_)]
                          <= max_spend(state_)
            /\ (game.bettingType = "limitBetting"
                    /\ raise_size(game, state_).ok) =>
                   \A t \in ProbeTargets(game, state_)
                            \cup {LimitRaiseTarget(game, state_)} :
                       is_valid_action(game, state_, Raise(t))
                           <=> t = LimitRaiseTarget(game, state_))
    /\ []C21_NoRaiseWhenNotRaisable
    /\ [][C21_CapHoldsInRound]_vars

\* In the first round of the limit game both raises of the round were made:
\* the cap is reached, raise_size fails and a raise of the fixed size is
\* rejected.
C21_Witness ==
    /\ game = LeducLimit2p
    /\ ~is_finished(state_)
    /\ state_.round = 0
    /\ numRaises(state_) = 2
    /\ state_.maxSpent = 5
    /\ state_.action[0][1] = [type |-> a_raise, size |-> 3]
    /\ state_.action[0][2] = [type |-> a_raise, size |-> 5]
    /\ ~raise_size(game, state_).ok
    /\ ~is_valid_action(game, state_, Raise(LimitRaiseTarget(game, state_)))

\* The number of actions, and of raises, logged in the hand so far.
TotalActions(s) == SumOver([r \in DOMAIN s.numActions |-> s.numActions[r]],
                           DOMAIN s.numActions)

TotalRaises(s) ==
    SumOver([r \in DOMAIN s.numActions |->
                Cardinality({i \in 1..s.numActions[r] :
                                s.action[r][i].type = a_raise})],
            DOMAIN s.numActions)

\* The largest stack of the game.
MaxStack(g) ==
    CHOOSE m \in {g.stack[p] : p \in Players(g)} :
        \A p \in Players(g) : g.stack[p] <= m

\* The length of a hand is bounded: no round has more raises than its cap or
\* more than MAX_NUM_ACTIONS actions, maxSpent stays within the largest stack,
\* and between two raises every player acts at most once.  An unfinished
\* state has a valid action (Call).
C22_Bounded ==
    /\ \A r \in Rounds(game) :
           /\ state_.numActions[r] <= MAX_NUM_ACTIONS
           /\ Cardinality({i \in 1..state_.numActions[r] :
                              state_.action[r][i].type = a_raise})
                  <= game.maxRaises[r]
    /\ max_spend(state_) <= MaxStack(game)
    /\ TotalActions(state_)
           <= game.numPlayers * (game.numRounds + TotalRaises(state_))
    /\ ~is_finished(state_) => is_valid_action(game, state_, Call)

\* Every step that changes the betting state adds exactly one entry to the
\* log, and a raise strictly increases maxSpent.
C22_Progress ==
    state_' # state_ =>
        /\ Acted
        /\ TotalActions(state_') = TotalActions(state_) + 1
        /\ ActedAction.type = a_raise =>
               max_spend(state_') > max_spend(state_)

====
